---- MODULE Spec2Model ----
(***************************************************************************)
(* Model of ExtHostNotebookKernels                                         *)
(* (src/vs/workbench/api/common/extHostNotebookKernels.ts).                *)
(*                                                                         *)
(* The extension host is single threaded.  Extension code calls the API    *)
(* of the controllers it holds; a maximal run of consecutive API calls is  *)
(* one synchronous block (a "turn").  The continuations queued by _update  *)
(* (Promise.resolve().then) run in FIFO order once the block has ended.    *)
(* Inbound calls of the main side ($acceptNotebookAssociation,             *)
(* $executeCells, $cancelCells, $acceptKernelMessageFromRenderer) and the  *)
(* rejection of the $addKernel promise are macrotasks: they start only     *)
(* when no continuation is queued.  A handler of the extension is an       *)
(* input: it returns (a value or a promise, awaited by the dispatch) or    *)
(* throws, and an awaited promise is later fulfilled or rejected.          *)
(*                                                                         *)
(* The DTO fields viewType, extensionLocation and preloads are written     *)
(* once at construction and never read by the modelled operations; they    *)
(* are left out of the data record.                                        *)
(***************************************************************************)
EXTENDS Integers, Sequences, FiniteSets, TLC

\* ------------------------------------------------------------------ bounds
MaxOps == 4          \* API calls, inbound calls and document changes of one behaviour

\* ------------------------------------------------------------------ inputs
Undef == "undefined"

\* the arguments of the createNotebookController calls
CreateArgs ==
    { [extension |-> [identifier |-> "e1", displayName |-> "One", name |-> "one"],
       id |-> "k1", label |-> "", handler |-> Undef],
      [extension |-> [identifier |-> "e2", displayName |-> Undef, name |-> "two"],
       id |-> "k1", label |-> "L0", handler |-> "h1"],
      [extension |-> [identifier |-> "e1", displayName |-> "One", name |-> "one"],
       id |-> "k2", label |-> "L0", handler |-> "h1"] }

LabelValues == {Undef, "L1"}
DetailValues == {"d1"}
DescriptionValues == {"s1"}
LanguageValues == {"py"}
BooleanValues == {"true"}
ExecuteHandlerValues == {Undef, "h2"}
InterruptHandlerValues == {Undef, "ih"}
Notebooks == {"nb", "nb2"}          \* the uris of association and affinity calls
Documents == {"nb"}                 \* the notebook whose cells a dispatch names
CellHandles == {1, 2}
HandleLists == { << >>, << 2, 1 >> }   \* the handles array of a dispatch
EditorIds == {"ed1", "edX"}
KnownEditors == {"ed1"}
EditorArgs == {Undef, "ed1"}           \* the optional editor of postMessage
HandlerResults == {"return", "throw"}
Settlements == {"fulfilled", "rejected"}

VARIABLES
    kernelData,     \* _kernelData: handle -> [extensionId, id] of the record
    handlePool,     \* _handlePool
    ctrl,           \* closure state of every controller ever created
    microtasks,     \* queued Promise.resolve().then continuations of _update
    pendingAdd,     \* handles whose $addKernel promise is not settled
    inflight,       \* asynchronous dispatches suspended at their await
    cells,          \* cell handles the notebook document resolves
    sentLog,        \* per handle: the calls sent to the main side, in order
    lastUpdate,     \* per handle: the DTO carried by the last $updateKernel
    turnSetters,    \* per handle: scheduling _update calls of the current turn
    turnUpdates,    \* per handle: $updateKernel calls sent since the turn began
    disposeCalls,   \* per handle: dispose() calls made so far
    setterCalls,    \* per handle: calls of setters that end in _update()
    assocLog,       \* per handle: the (uri, value) pairs dispatched to it
    lastOp,         \* what the last step did (operation, result, effects)
    ops,            \* operations performed so far
    limit           \* operations this behaviour may perform

vars == << kernelData, handlePool, ctrl, microtasks, pendingAdd, inflight,
           cells, sentLog, lastUpdate, turnSetters, turnUpdates, disposeCalls,
           setterCalls, assocLog, lastOp, ops, limit >>

\* ----------------------------------------------------------------- helpers
\* a ?? b
Nullish(a, b) == IF a = Undef THEN b ELSE a

\* a || b for strings
OrElse(a, b) == IF a = "" \/ a = Undef THEN b ELSE a

\* Boolean(value) for a handler reference
BooleanOf(value) == IF value = Undef THEN "false" ELSE "true"

\* ExtensionIdentifier.equals(a, b)
ExtensionIdentifierEquals(a, b) == a = b

Extend(f, k, v) == [x \in (DOMAIN f) \cup {k} |-> IF x = k THEN v ELSE f[x]]
Remove(f, k) == [x \in (DOMAIN f) \ {k} |-> f[x]]

\* the record of a step: kind is "api" (a call of extension code), "micro"
\* (a continuation) or "macro" (an inbound call or a settled promise)
Op(name, kind, h, result) ==
    [op |-> name, kind |-> kind, h |-> h, result |-> result, handler |-> "none",
     args |-> << >>, sent |-> << >>, events |-> << >>, calls |-> << >>,
     cancels |-> << >>]

InitWith(n) ==
    /\ kernelData = << >>
    /\ handlePool = 0
    /\ ctrl = << >>
    /\ microtasks = << >>
    /\ pendingAdd = {}
    /\ inflight = << >>
    /\ cells = CellHandles
    /\ sentLog = << >>
    /\ lastUpdate = << >>
    /\ turnSetters = << >>
    /\ turnUpdates = << >>
    /\ disposeCalls = << >>
    /\ setterCalls = << >>
    /\ assocLog = << >>
    /\ lastOp = Op("init", "macro", 0, "ok")
    /\ ops = 0
    /\ limit = n

Init == InitWith(MaxOps)

\* an API call is made by extension code; the first one after a continuation
\* or a macrotask starts a new synchronous block
NewTurn == lastOp.kind # "api"
Zero(f) == [h \in DOMAIN f |-> 0]
TurnCount(f) == IF NewTurn THEN Zero(f) ELSE f

ApiCall ==
    /\ ops < limit
    /\ ops' = ops + 1
    /\ UNCHANGED limit

\* a macrotask starts when the microtask queue has drained
Macrotask ==
    /\ microtasks = << >>
    /\ UNCHANGED limit

\* a duplicate check that compares the controller id alone
HasDuplicateIdOnly(kd, extensionId, id) ==
    \E h \in DOMAIN kd : kd[h].id = id

\* ------------------------------------------------ createNotebookController
\* for (let data of this._kernelData.values()) if (... === id && equals(...))
HasDuplicate(kd, extensionId, id) ==
    \E h \in DOMAIN kd :
        /\ kd[h].id = id
        /\ ExtensionIdentifierEquals(extensionId, kd[h].extensionId)

\* a handle pool that is never advanced
HandlePoolKept(pool) == pool

\* this._handlePool++ : the value the pool holds afterwards
NextHandlePool(pool) == pool + 1

\* a handle allocated before the duplicate scan
PoolAfterDuplicateAdvanced(pool) == pool + 1

\* the throw of the duplicate scan precedes this._handlePool++ : the value
\* the pool holds after a create call that threw
PoolAfterDuplicate(pool) == pool

\* the INotebookKernelDto2 built by createNotebookController
InitialData(extension, id, label) ==
    [id |-> << extension.identifier, id >>,
     label |-> OrElse(label, extension.identifier),
     detail |-> Undef,
     description |-> Undef,
     supportedLanguages |-> Undef,
     hasExecutionOrder |-> Undef,
     supportsInterrupt |-> Undef]

\* the closure variables of one controller
NewController(extension, id, label, handler) ==
    [extension |-> extension,
     id |-> id,
     isDisposed |-> FALSE,
     tokenPool |-> 0,
     data |-> InitialData(extension, id, label),
     executeHandler |-> Nullish(handler, "default"),
     interruptHandler |-> Undef,
     associatedNotebooks |-> {},
     emittersDisposed |-> FALSE]

createNotebookController(a) ==
    /\ ApiCall
    /\ IF HasDuplicate(kernelData, a.extension.identifier, a.id)
       THEN /\ lastOp' = [Op("create", "api", handlePool, "throw")
                             EXCEPT !.args = << a.extension.identifier, a.id >>]
            /\ handlePool' = PoolAfterDuplicate(handlePool)
            /\ turnSetters' = TurnCount(turnSetters)
            /\ turnUpdates' = TurnCount(turnUpdates)
            /\ UNCHANGED << kernelData, ctrl, pendingAdd, sentLog,
                            lastUpdate, disposeCalls, setterCalls, assocLog >>
       ELSE LET handle == handlePool
                c == NewController(a.extension, a.id, a.label, a.handler)
            IN /\ handlePool' = NextHandlePool(handlePool)
               /\ ctrl' = Extend(ctrl, handle, c)
               /\ pendingAdd' = pendingAdd \cup {handle}
               /\ sentLog' = Extend(sentLog, handle, << "addKernel" >>)
               /\ lastUpdate' = Extend(lastUpdate, handle, Undef)
               /\ disposeCalls' = Extend(disposeCalls, handle, 0)
               /\ setterCalls' = Extend(setterCalls, handle, 0)
               /\ assocLog' = Extend(assocLog, handle, << >>)
               /\ turnSetters' = Extend(TurnCount(turnSetters), handle, 0)
               /\ turnUpdates' = Extend(TurnCount(turnUpdates), handle, 0)
               /\ kernelData' = Extend(kernelData, handle,
                                   [extensionId |-> a.extension.identifier,
                                    id |-> a.id])
               /\ lastOp' = [Op("create", "api", handle, "ok")
                                EXCEPT !.sent = << "addKernel" >>,
                                       !.args = << a.extension.identifier, a.id >>]
    /\ UNCHANGED << microtasks, inflight, cells >>

\* $addKernel(...).catch(err => { isDisposed = true })
AddKernelRejected(h) ==
    /\ Macrotask
    /\ h \in pendingAdd
    /\ pendingAdd' = pendingAdd \ {h}
    /\ ctrl' = [ctrl EXCEPT ![h].isDisposed = TRUE]
    /\ lastOp' = Op("addKernelRejected", "macro", h, "ok")
    /\ UNCHANGED << kernelData, handlePool, microtasks, inflight, cells,
                    sentLog, lastUpdate, turnSetters, turnUpdates, disposeCalls, setterCalls, assocLog, ops >>

\* an _update that does not look at isDisposed
SchedulesAlways(c) == TRUE

\* ----------------------------------------------------------------- _update
\* if (isDisposed) return: does this call schedule a continuation
Schedules(c) == ~c.isDisposed

\* a setter that ends in _update(): c is the controller with the field written
_update(h, c, name) ==
    /\ ApiCall
    /\ IF Schedules(c)
       THEN /\ ctrl' = [ctrl EXCEPT ![h] = [c EXCEPT !.tokenPool = @ + 1]]
            /\ microtasks' = Append(microtasks, [h |-> h, myToken |-> c.tokenPool + 1])
            /\ turnSetters' = [TurnCount(turnSetters) EXCEPT ![h] = @ + 1]
            /\ lastOp' = Op(name, "api", h, "scheduled")
       ELSE /\ ctrl' = [ctrl EXCEPT ![h] = c]
            /\ turnSetters' = TurnCount(turnSetters)
            /\ lastOp' = Op(name, "api", h, "ok")
            /\ UNCHANGED microtasks
    /\ turnUpdates' = TurnCount(turnUpdates)
    /\ setterCalls' = [setterCalls EXCEPT ![h] = @ + 1]
    /\ UNCHANGED << kernelData, handlePool, pendingAdd, inflight, cells,
                    sentLog, lastUpdate, disposeCalls, assocLog >>

\* a continuation that sends when its token is no longer the current one
TokenStale(myToken, tokenPool) == myToken # tokenPool

\* a continuation that does not compare its token
TokenIgnored(myToken, tokenPool) == TRUE

\* if (myToken === tokenPool)
TokenIsCurrent(myToken, tokenPool) == myToken = tokenPool

\* the continuation scheduled by _update
RunMicrotask ==
    /\ microtasks # << >>
    /\ LET m == Head(microtasks)
           h == m.h
       IN /\ microtasks' = Tail(microtasks)
          /\ IF TokenIsCurrent(m.myToken, ctrl[h].tokenPool)
             THEN /\ sentLog' = [sentLog EXCEPT ![h] = Append(@, "updateKernel")]
                  /\ lastUpdate' = [lastUpdate EXCEPT ![h] = ctrl[h].data]
                  /\ turnUpdates' = [turnUpdates EXCEPT ![h] = @ + 1]
                  /\ lastOp' = [Op("update", "micro", h, "ok")
                                   EXCEPT !.sent = << "updateKernel" >>]
             ELSE /\ lastOp' = Op("update", "micro", h, "stale")
                  /\ UNCHANGED << sentLog, lastUpdate, turnUpdates >>
    /\ UNCHANGED << kernelData, handlePool, ctrl, pendingAdd, inflight, cells,
                    turnSetters, disposeCalls, setterCalls, assocLog, ops, limit >>

\* ----------------------------------------------------------------- setters
SetLabel(h, value) ==
    /\ h \in DOMAIN ctrl
    /\ LET ext == ctrl[h].extension
       IN _update(h, [ctrl[h] EXCEPT !.data.label =
                          Nullish(value, Nullish(ext.displayName, ext.name))], "label")

SetDetail(h, value) ==
    /\ h \in DOMAIN ctrl
    /\ _update(h, [ctrl[h] EXCEPT !.data.detail = value], "detail")

SetDescription(h, value) ==
    /\ h \in DOMAIN ctrl
    /\ _update(h, [ctrl[h] EXCEPT !.data.description = value], "description")

SetSupportedLanguages(h, value) ==
    /\ h \in DOMAIN ctrl
    /\ _update(h, [ctrl[h] EXCEPT !.data.supportedLanguages = value], "supportedLanguages")

SetHasExecutionOrder(h, value) ==
    /\ h \in DOMAIN ctrl
    /\ _update(h, [ctrl[h] EXCEPT !.data.hasExecutionOrder = value], "hasExecutionOrder")

SetInterruptHandler(h, value) ==
    /\ h \in DOMAIN ctrl
    /\ _update(h, [ctrl[h] EXCEPT !.interruptHandler = value,
                                  !.data.supportsInterrupt = BooleanOf(value)],
               "interruptHandler")

\* an API call that schedules nothing and leaves the main-side log alone
PlainCall ==
    /\ ApiCall
    /\ turnSetters' = TurnCount(turnSetters)
    /\ turnUpdates' = TurnCount(turnUpdates)
    /\ UNCHANGED << handlePool, microtasks, pendingAdd, inflight, cells, lastUpdate >>

\* set executeHandler(value): no _update
SetExecuteHandler(h, value) ==
    /\ h \in DOMAIN ctrl
    /\ PlainCall
    /\ ctrl' = [ctrl EXCEPT ![h].executeHandler = Nullish(value, "default")]
    /\ lastOp' = [Op("executeHandler", "api", h, "ok") EXCEPT !.args = << value >>]
    /\ UNCHANGED << kernelData, sentLog, disposeCalls, setterCalls, assocLog >>

\* ---------------------------------- dispose, postMessage, updateNotebookAffinity
\* a dispose() that does not look at isDisposed
DisposeActsAlways(c) == TRUE

\* if (!isDisposed)
DisposeActs(c) == ~c.isDisposed

dispose(h) ==
    /\ h \in DOMAIN ctrl
    /\ PlainCall
    /\ disposeCalls' = [disposeCalls EXCEPT ![h] = @ + 1]
    /\ UNCHANGED << setterCalls, assocLog >>
    /\ IF DisposeActs(ctrl[h])
       THEN /\ ctrl' = [ctrl EXCEPT ![h].isDisposed = TRUE,
                                    ![h].emittersDisposed = TRUE]
            /\ kernelData' = Remove(kernelData, h)
            /\ sentLog' = [sentLog EXCEPT ![h] = Append(@, "removeKernel")]
            /\ lastOp' = [Op("dispose", "api", h, "ok") EXCEPT !.sent = << "removeKernel" >>]
       ELSE /\ lastOp' = Op("dispose", "api", h, "ok")
            /\ UNCHANGED << ctrl, kernelData, sentLog >>

\* does postMessage / updateNotebookAffinity of controller c reach the proxy
Forwards(c) == TRUE

postMessage(h, editor) ==
    /\ h \in DOMAIN ctrl
    /\ PlainCall
    /\ IF Forwards(ctrl[h])
       THEN /\ sentLog' = [sentLog EXCEPT ![h] = Append(@, "postMessage")]
            /\ lastOp' = [Op("postMessage", "api", h, "ok")
                             EXCEPT !.sent = << "postMessage" >>, !.args = << editor >>]
       ELSE /\ lastOp' = Op("postMessage", "api", h, "ok")
            /\ UNCHANGED sentLog
    /\ UNCHANGED << ctrl, kernelData, disposeCalls, setterCalls, assocLog >>

updateNotebookAffinity(h, notebook) ==
    /\ h \in DOMAIN ctrl
    /\ PlainCall
    /\ IF Forwards(ctrl[h])
       THEN /\ sentLog' = [sentLog EXCEPT ![h] = Append(@, "updateNotebookPriority")]
            /\ lastOp' = [Op("updateNotebookAffinity", "api", h, "ok")
                             EXCEPT !.sent = << "updateNotebookPriority" >>,
                                    !.args = << notebook >>]
       ELSE /\ lastOp' = Op("updateNotebookAffinity", "api", h, "ok")
            /\ UNCHANGED sentLog
    /\ UNCHANGED << ctrl, kernelData, disposeCalls, setterCalls, assocLog >>

\* ------------------------------------------ createNotebookCellExecutionTask
\* the cells extension code may pass: a cell of an associated notebook, a
\* cell that was removed (index < 0) and a cell of another notebook
CellArgs ==
    { [index |-> 0, handle |-> 1, notebook |-> "nb"],
      [index |-> -1, handle |-> 2, notebook |-> "nb"],
      [index |-> 0, handle |-> 2, notebook |-> "nb2"] }

\* the checks with the disposed flag tested first
TaskResultDisposedFirst(index, isDisposed, associated, resolves) ==
    IF isDisposed THEN "DISPOSED"
    ELSE IF index < 0 THEN "REMOVED"
    ELSE IF ~associated THEN "NOT associated"
    ELSE IF ~resolves THEN "invalid cell"
    ELSE "task"

\* the checks of createNotebookCellExecutionTask, in their order
TaskResult(index, isDisposed, associated, resolves) ==
    IF index < 0 THEN "REMOVED"
    ELSE IF isDisposed THEN "DISPOSED"
    ELSE IF ~associated THEN "NOT associated"
    ELSE IF ~resolves THEN "invalid cell"
    ELSE "task"

createNotebookCellExecutionTask(h, cell) ==
    /\ h \in DOMAIN ctrl
    /\ PlainCall
    /\ LET r == TaskResult(cell.index, ctrl[h].isDisposed,
                           cell.notebook \in ctrl[h].associatedNotebooks,
                           cell.handle \in cells)
       IN lastOp' = [Op("createNotebookCellExecutionTask", "api", h,
                        IF r = "task" THEN "ok" ELSE "throw")
                        EXCEPT !.args = << cell, r >>,
                               !.calls = IF r = "task"
                                         THEN << [createNotebookCellExecution |-> cell.handle] >>
                                         ELSE << >>]
    /\ UNCHANGED << ctrl, kernelData, sentLog, disposeCalls, setterCalls, assocLog >>

\* -------------------------------------------------------- inbound dispatch
\* an inbound call of the main side
Dispatch ==
    /\ Macrotask
    /\ ops < limit
    /\ ops' = ops + 1

\* the handles the main side may name: every controller ever created and
\* one handle that was never allocated
DispatchHandles == (DOMAIN ctrl) \cup {handlePool}

\* emitter.fire(event): a disposed emitter has no listeners left
Fire(c, event) == IF c.emittersDisposed THEN << >> ELSE << event >>

\* every requested handle taken as a cell
ResolvedCellsAll(handles, doc) == handles

\* document.getCell(cellHandle) for each requested handle, in request order
ResolvedCells(handles, doc) == SelectSeq(handles, LAMBDA c : c \in doc)

\* what a handler may do when called: the default execute handler only warns
HandlerResultsOf(handler) ==
    IF handler = "default" THEN {"return"} ELSE {"return", "throw"}
SettlementsOf(handler) ==
    IF handler = "default" THEN {"fulfilled"} ELSE {"fulfilled", "rejected"}

RemoveAt(s, i) == [j \in 1 .. (Len(s) - 1) |-> IF j < i THEN s[j] ELSE s[j + 1]]

\* an association update that never removes
AssociationKept(associated, uri, value) == associated \cup {uri}

\* if (value) associatedNotebooks.set(uri, true) else associatedNotebooks.delete(uri)
AssociationUpdate(associated, uri, value) ==
    IF value THEN associated \cup {uri} ELSE associated \ {uri}

acceptNotebookAssociation(handle, uri, value) ==
    /\ Dispatch
    /\ IF handle \in DOMAIN kernelData
       THEN /\ ctrl' = [ctrl EXCEPT ![handle].associatedNotebooks =
                           AssociationUpdate(@, uri, value)]
            /\ lastOp' = [Op("acceptNotebookAssociation", "macro", handle, "ok")
                             EXCEPT !.args = << uri, value >>,
                                    !.events = Fire(ctrl[handle],
                                        [selected |-> value, notebook |-> uri])]
       ELSE /\ lastOp' = [Op("acceptNotebookAssociation", "macro", handle, "ok")
                             EXCEPT !.args = << uri, value >>]
            /\ UNCHANGED ctrl
    /\ assocLog' = IF handle \in DOMAIN assocLog
                   THEN [assocLog EXCEPT ![handle] = Append(@, << uri, value >>)]
                   ELSE assocLog
    /\ UNCHANGED << kernelData, handlePool, microtasks, pendingAdd, inflight,
                    cells, sentLog, lastUpdate, turnSetters, turnUpdates,
                    disposeCalls, setterCalls >>

\* $executeCells without its try block
ExecuteOutcomeUncaught(handlerResult) ==
    IF handlerResult \in {"throw", "rejected"} THEN "rejected" ELSE "resolved"

\* try { await handler } catch (err) { console.error(err) }
ExecuteOutcome(handlerResult) == "resolved"

executeCells(handle, uri, handles, result) ==
    /\ Dispatch
    /\ IF handle \notin DOMAIN kernelData
       THEN /\ result = "return"
            /\ lastOp' = [Op("executeCells", "macro", handle, "resolved")
                             EXCEPT !.args = handles]
            /\ UNCHANGED inflight
       ELSE LET handler == ctrl[handle].executeHandler
                call == [handler |-> handler,
                         cells |-> ResolvedCells(handles, cells),
                         notebook |-> uri]
            IN /\ result \in HandlerResultsOf(handler)
               /\ IF result = "throw"
                  THEN /\ lastOp' = [Op("executeCells", "macro", handle,
                                        ExecuteOutcome(result))
                                        EXCEPT !.args = handles,
                                               !.handler = result,
                                               !.calls = << call >>]
                       /\ UNCHANGED inflight
                  ELSE /\ lastOp' = [Op("executeCells", "macro", handle, "pending")
                                        EXCEPT !.args = handles,
                                               !.handler = result,
                                               !.calls = << call >>]
                       /\ inflight' = Append(inflight,
                              [kind |-> "execute", h |-> handle, uri |-> uri,
                               handles |-> handles, handler |-> handler,
                               registered |-> TRUE, calls |-> << call >>])
    /\ UNCHANGED << kernelData, handlePool, ctrl, microtasks, pendingAdd,
                    cells, sentLog, lastUpdate, turnSetters, turnUpdates, disposeCalls, setterCalls, assocLog >>

\* the awaited promise of the execute handler settles
executeCellsResume(i, settlement) ==
    /\ i \in 1 .. Len(inflight)
    /\ inflight[i].kind = "execute"
    /\ settlement \in SettlementsOf(inflight[i].handler)
    /\ inflight' = RemoveAt(inflight, i)
    /\ lastOp' = [Op("executeCellsResume", "macro", inflight[i].h,
                     ExecuteOutcome(settlement))
                     EXCEPT !.args = inflight[i].handles,
                            !.handler = settlement,
                            !.calls = inflight[i].calls]
    /\ UNCHANGED << kernelData, handlePool, ctrl, microtasks, pendingAdd,
                    cells, sentLog, lastUpdate, turnSetters, turnUpdates,
                    disposeCalls, setterCalls, assocLog, ops, limit >>

\* $cancelCells awaits the interrupt handler outside any try block
CancelOutcome(handlerResult) ==
    IF handlerResult \in {"throw", "rejected"} THEN "rejected" ELSE "resolved"

\* the loop over handles after the await: reached unless the function threw
Cancellations(outcome, handles, doc) ==
    IF outcome = "rejected" THEN << >> ELSE ResolvedCells(handles, doc)

\* if (obj.controller.interruptHandler): the calls made to the handler
InterruptCalls(interruptHandler, uri) ==
    IF interruptHandler = Undef THEN << >>
    ELSE << [handler |-> interruptHandler, notebook |-> uri] >>

cancelCells(handle, uri, handles, result) ==
    /\ Dispatch
    /\ IF handle \notin DOMAIN kernelData
       THEN /\ result = "return"
            /\ lastOp' = [Op("cancelCells", "macro", handle, "resolved")
                             EXCEPT !.args = handles]
            /\ UNCHANGED inflight
       ELSE LET ih == ctrl[handle].interruptHandler
                calls == InterruptCalls(ih, uri)
            IN IF calls = << >>
               THEN /\ result = "return"
                    /\ lastOp' = [Op("cancelCells", "macro", handle, "resolved")
                                     EXCEPT !.args = handles,
                                            !.cancels = Cancellations("resolved", handles, cells)]
                    /\ UNCHANGED inflight
               ELSE IF result = "throw"
                    THEN /\ lastOp' = [Op("cancelCells", "macro", handle,
                                          CancelOutcome(result))
                                          EXCEPT !.args = handles,
                                                 !.handler = result,
                                                 !.calls = calls,
                                                 !.cancels = Cancellations(
                                                     CancelOutcome(result), handles, cells)]
                         /\ UNCHANGED inflight
                    ELSE /\ lastOp' = [Op("cancelCells", "macro", handle, "pending")
                                          EXCEPT !.args = handles,
                                                 !.handler = result,
                                                 !.calls = calls]
                         /\ inflight' = Append(inflight,
                                [kind |-> "cancel", h |-> handle, uri |-> uri,
                                 handles |-> handles, handler |-> ih,
                                 registered |-> TRUE, calls |-> calls])
    /\ UNCHANGED << kernelData, handlePool, ctrl, microtasks, pendingAdd,
                    cells, sentLog, lastUpdate, turnSetters, turnUpdates, disposeCalls, setterCalls, assocLog >>

\* the awaited promise of the interrupt handler settles
cancelCellsResume(i, settlement) ==
    /\ i \in 1 .. Len(inflight)
    /\ inflight[i].kind = "cancel"
    /\ settlement \in Settlements
    /\ inflight' = RemoveAt(inflight, i)
    /\ lastOp' = [Op("cancelCellsResume", "macro", inflight[i].h,
                     CancelOutcome(settlement))
                     EXCEPT !.args = inflight[i].handles,
                            !.handler = settlement,
                            !.calls = inflight[i].calls,
                            !.cancels = Cancellations(CancelOutcome(settlement),
                                            inflight[i].handles, cells)]
    /\ UNCHANGED << kernelData, handlePool, ctrl, microtasks, pendingAdd,
                    cells, sentLog, lastUpdate, turnSetters, turnUpdates,
                    disposeCalls, setterCalls, assocLog, ops, limit >>

\* this._extHostNotebook.getEditorById(editorId)
getEditorById(editorId) == IF editorId \in KnownEditors THEN editorId ELSE Undef

\* a dispatch that never tests the resolved editor
MessageResultEditorUnchecked(hasRecord, editor) ==
    IF ~hasRecord THEN "ignored" ELSE "fire"

\* the editor resolved before the record is looked up
MessageResultEditorFirst(hasRecord, editor) ==
    IF editor = Undef THEN "throw"
    ELSE IF ~hasRecord THEN "ignored"
    ELSE "fire"

\* the order of the checks of $acceptKernelMessageFromRenderer: the record
\* lookup returns before the editor is resolved
MessageResult(hasRecord, editor) ==
    IF ~hasRecord THEN "ignored"
    ELSE IF editor = Undef THEN "throw"
    ELSE "fire"

acceptKernelMessageFromRenderer(handle, editorId) ==
    /\ Dispatch
    /\ LET r == MessageResult(handle \in DOMAIN kernelData, getEditorById(editorId))
       IN lastOp' = [Op("acceptKernelMessageFromRenderer", "macro", handle,
                        IF r = "throw" THEN "throw" ELSE "ok")
                        EXCEPT !.args = << editorId >>,
                               !.events = IF r = "fire"
                                          THEN Fire(ctrl[handle],
                                                   [editor |-> getEditorById(editorId)])
                                          ELSE << >>]
    /\ UNCHANGED << kernelData, handlePool, ctrl, microtasks, pendingAdd,
                    inflight, cells, sentLog, lastUpdate, turnSetters, turnUpdates,
                    disposeCalls, setterCalls, assocLog >>

\* the notebook document loses a cell
RemoveCell(c) ==
    /\ Dispatch
    /\ c \in cells
    /\ cells' = cells \ {c}
    /\ lastOp' = [Op("removeCell", "macro", 0, "ok") EXCEPT !.args = << c >>]
    /\ UNCHANGED << kernelData, handlePool, ctrl, microtasks, pendingAdd,
                    inflight, sentLog, lastUpdate, turnSetters, turnUpdates,
                    disposeCalls, setterCalls, assocLog >>

\* ---------------------------------------------------------- specifications
Setters ==
    \/ \E h \in DOMAIN ctrl, v \in LabelValues : SetLabel(h, v)
    \/ \E h \in DOMAIN ctrl, v \in DetailValues : SetDetail(h, v)
    \/ \E h \in DOMAIN ctrl, v \in DescriptionValues : SetDescription(h, v)
    \/ \E h \in DOMAIN ctrl, v \in LanguageValues : SetSupportedLanguages(h, v)
    \/ \E h \in DOMAIN ctrl, v \in BooleanValues : SetHasExecutionOrder(h, v)

Lifecycle ==
    \/ \E a \in CreateArgs : createNotebookController(a)
    \/ \E h \in DOMAIN ctrl : AddKernelRejected(h)
    \/ \E h \in DOMAIN ctrl : dispose(h)
    \/ \E h \in DOMAIN ctrl, v \in InterruptHandlerValues : SetInterruptHandler(h, v)
    \/ \E h \in DOMAIN ctrl, v \in ExecuteHandlerValues : SetExecuteHandler(h, v)
    \/ RunMicrotask

Forwarding ==
    \/ \E h \in DOMAIN ctrl, e \in EditorArgs : postMessage(h, e)
    \/ \E h \in DOMAIN ctrl, n \in Notebooks : updateNotebookAffinity(h, n)

Inbound ==
    \/ \E h \in DispatchHandles, n \in Notebooks, v \in BOOLEAN :
          acceptNotebookAssociation(h, n, v)
    \/ \E h \in DispatchHandles, n \in Documents, l \in HandleLists, r \in HandlerResults :
          executeCells(h, n, l, r)
    \/ \E i \in 1 .. Len(inflight), s \in Settlements : executeCellsResume(i, s)
    \/ \E h \in DispatchHandles, n \in Documents, l \in HandleLists, r \in HandlerResults :
          cancelCells(h, n, l, r)
    \/ \E i \in 1 .. Len(inflight), s \in Settlements : cancelCellsResume(i, s)
    \/ \E h \in DispatchHandles, e \in EditorIds : acceptKernelMessageFromRenderer(h, e)
    \/ \E c \in CellHandles : RemoveCell(c)

Tasks ==
    \E h \in DOMAIN ctrl, c \in CellArgs : createNotebookCellExecutionTask(h, c)

Next == Lifecycle \/ Setters \/ Forwarding \/ Inbound \/ Tasks

Spec == Init /\ [][Next]_vars

\* the metadata protocol: creation, setters, disposal and forwarding
NextUpdate == Lifecycle \/ Setters \/ Forwarding
SpecUpdate == Init /\ [][NextUpdate]_vars

\* the dispatch protocol: creation, handlers, disposal and inbound calls
NextDispatch == Lifecycle \/ Inbound \/ Tasks
SpecDispatch == Init /\ [][NextDispatch]_vars

\* ------------------------------------------------------------------ claims
SetterOps == {"label", "detail", "description", "supportedLanguages",
              "hasExecutionOrder", "interruptHandler"}

\* the $addKernel promise of controller h has been rejected
Rejected(h) == h \in DOMAIN ctrl /\ h \notin pendingAdd

\* the (extension, id) pair of controller h
PairOf(h) == << ctrl[h].extension.identifier, ctrl[h].id >>

\* C1: once the continuations of a turn have run, every controller on which
\* N >= 1 metadata setters were called in that turn while it was not disposed
\* has been sent exactly one $updateKernel since the turn began, and that call
\* carried the DTO as the last setter left it.
C1_OneUpdatePerTurn ==
    microtasks = << >> =>
        \A h \in DOMAIN ctrl :
            turnSetters[h] >= 1 =>
                /\ turnUpdates[h] = 1
                /\ lastUpdate[h] = ctrl[h].data

\* three setter calls in one turn, their continuations run, one update sent
C1_Witness ==
    /\ microtasks = << >>
    /\ lastOp.op = "update"
    /\ \E h \in DOMAIN ctrl : turnSetters[h] >= 3 /\ turnUpdates[h] = 1

\* C2 (as stated): after dispose() has been called on a controller, a later
\* $acceptNotebookAssociation, $executeCells or $cancelCells for its handle
\* fires no event, calls no handler, requests no cancellation and leaves the
\* controller (its associatedNotebooks included) unchanged.
C2_NoDispatchAfterDispose ==
    [][ ( /\ lastOp'.op \in {"acceptNotebookAssociation", "executeCells", "cancelCells"}
          /\ lastOp'.h \in DOMAIN ctrl
          /\ disposeCalls[lastOp'.h] > 0 )
        => ( /\ lastOp'.events = << >>
             /\ lastOp'.calls = << >>
             /\ lastOp'.cancels = << >>
             /\ ctrl' = ctrl ) ]_vars

\* C3 (as stated): after the $addKernel rejection every setter, dispose(),
\* postMessage and updateNotebookAffinity call on the controller changes no
\* registry state, schedules nothing and sends nothing to the main side.
C3_AllNoOpsAfterRejection ==
    [][ ( /\ lastOp'.kind = "api"
          /\ lastOp'.op \in SetterOps \cup {"dispose", "postMessage", "updateNotebookAffinity"}
          /\ Rejected(lastOp'.h) )
        => ( /\ kernelData' = kernelData
             /\ microtasks' = microtasks
             /\ sentLog' = sentLog ) ]_vars

\* C3 (amended): after the $addKernel rejection a setter or dispose() call on
\* the controller changes no registry state, schedules no continuation and
\* sends nothing; postMessage and updateNotebookAffinity change no registry
\* state either but are still forwarded, as one $postMessage and one
\* $updateNotebookPriority call.
C3_SettersAndDisposeNoOpsAfterRejection ==
    [][ ( /\ lastOp'.kind = "api"
          /\ lastOp'.op \in SetterOps \cup {"dispose", "postMessage", "updateNotebookAffinity"}
          /\ Rejected(lastOp'.h) )
        => ( /\ kernelData' = kernelData
             /\ microtasks' = microtasks
             /\ sentLog' =
                  IF lastOp'.op = "postMessage"
                  THEN [sentLog EXCEPT ![lastOp'.h] = Append(@, "postMessage")]
                  ELSE IF lastOp'.op = "updateNotebookAffinity"
                  THEN [sentLog EXCEPT ![lastOp'.h] = Append(@, "updateNotebookPriority")]
                  ELSE sentLog ) ]_vars

\* a setter has been called on a controller whose registration was rejected
C3_Witness ==
    /\ lastOp.op \in SetterOps
    /\ Rejected(lastOp.h)
    /\ lastOp.result = "ok"
    /\ \E i \in 1 .. Len(sentLog[lastOp.h]) : sentLog[lastOp.h][i] = "postMessage"

\* C4 (as stated): createNotebookController throws exactly when another
\* controller that is not disposed has the same (extension, id) pair, and no
\* two records of controllers that are not disposed share a pair.
C4_DuplicateIffLive ==
    /\ lastOp.op = "create" =>
          ( lastOp.result = "throw" <=>
               \E h \in (DOMAIN ctrl) \ {lastOp.h} :
                   ~ctrl[h].isDisposed /\ PairOf(h) = lastOp.args )
    /\ \A g, h \in DOMAIN kernelData :
          (g # h /\ ~ctrl[g].isDisposed /\ ~ctrl[h].isDisposed) => PairOf(g) # PairOf(h)

\* C5: a create call whose (extension, id) pair is that of a registered record
\* throws; a create call whose pair no registered record has (the same id
\* under another extension included) succeeds and adds a record of its own.
C5_SameIdOtherExtension ==
    lastOp.op = "create" =>
        LET others == (DOMAIN kernelData) \ {lastOp.h}
            taken == \E h \in others :
                        << kernelData[h].extensionId, kernelData[h].id >> = lastOp.args
        IN IF taken
           THEN lastOp.result = "throw"
           ELSE /\ lastOp.result = "ok"
                /\ lastOp.h \in DOMAIN kernelData
                /\ << kernelData[lastOp.h].extensionId, kernelData[lastOp.h].id >> = lastOp.args

\* two records with one id under two extensions are registered, and a further
\* create call for one of the pairs has thrown
C5_Witness ==
    /\ lastOp.op = "create"
    /\ lastOp.result = "throw"
    /\ \E g, h \in DOMAIN kernelData :
          /\ g # h
          /\ kernelData[g].id = kernelData[h].id
          /\ kernelData[g].extensionId # kernelData[h].extensionId

\* C6: the handle a successful create call allocates is greater than every
\* handle allocated before it (disposed controllers included).
C6_HandlesIncrease ==
    [][ (lastOp'.op = "create" /\ lastOp'.result = "ok")
        => \A h \in DOMAIN ctrl : lastOp'.h > h ]_vars

\* a handle allocated after the controller of an earlier handle was disposed
C6_Witness ==
    /\ lastOp.op = "create"
    /\ lastOp.result = "ok"
    /\ \E h \in DOMAIN ctrl : h < lastOp.h /\ ctrl[h].isDisposed

\* C7 (as stated): a $cancelCells whose interrupt handler throws or rejects
\* resolves.
C7_InterruptErrorCaught ==
    ( /\ lastOp.op \in {"cancelCells", "cancelCellsResume"}
      /\ lastOp.handler \in {"throw", "rejected"} )
    => lastOp.result = "resolved"

\* C8: a $executeCells whose execute handler throws or rejects resolves, and
\* the step that handles the error changes neither the registry nor any
\* controller (disposed flag, DTO, handlers, associatedNotebooks).
C8_ExecuteErrorCaught ==
    [][ ( /\ lastOp'.op \in {"executeCells", "executeCellsResume"}
          /\ lastOp'.handler \in {"throw", "rejected"} )
        => ( /\ lastOp'.result = "resolved"
             /\ kernelData' = kernelData
             /\ ctrl' = ctrl ) ]_vars

\* the promise of an execute handler was rejected and the dispatch resolved
C8_Witness ==
    /\ lastOp.op = "executeCellsResume"
    /\ lastOp.handler = "rejected"
    /\ lastOp.result = "resolved"
    /\ Len(lastOp.calls) = 1

\* C9 (as stated): a $cancelCells for a registered handle, once complete, has
\* called the interrupt handler once if one was registered and not at all
\* otherwise, and has requested one cancellation for each passed cell handle
\* that resolves, in every such dispatch.
C9_InterruptAndCancelEach ==
    LET complete ==
            \/ /\ lastOp.op = "cancelCells"
               /\ lastOp.result # "pending"
               /\ lastOp.h \in DOMAIN kernelData
            \/ lastOp.op = "cancelCellsResume"
    IN complete =>
         /\ lastOp.cancels = ResolvedCells(lastOp.args, cells)
         /\ Len(lastOp.calls) =
               IF lastOp.op = "cancelCells" /\ ctrl[lastOp.h].interruptHandler = Undef
               THEN 0 ELSE 1

\* C10: $acceptKernelMessageFromRenderer for a handle without a record does
\* not throw and fires nothing, whether or not the editor resolves; for a
\* handle with a record it throws exactly when the editor does not resolve and
\* otherwise fires the message event once.
C10_MessageDispatch ==
    lastOp.op = "acceptKernelMessageFromRenderer" =>
        IF lastOp.h \notin DOMAIN kernelData
        THEN lastOp.result = "ok" /\ lastOp.events = << >>
        ELSE IF lastOp.args[1] \notin KnownEditors
        THEN lastOp.result = "throw" /\ lastOp.events = << >>
        ELSE lastOp.result = "ok" /\ Len(lastOp.events) = 1

\* a message for an unknown editor reached the handle of a disposed controller
C10_Witness ==
    /\ lastOp.op = "acceptKernelMessageFromRenderer"
    /\ lastOp.h \in DOMAIN ctrl
    /\ lastOp.h \notin DOMAIN kernelData
    /\ lastOp.args = << "edX" >>
    /\ lastOp.result = "ok"

\* the calls named x in a log
Count(log, x) == Cardinality({ i \in 1 .. Len(log) : log[i] = x })

DisposeCall(h) ==
    /\ h \in DOMAIN disposeCalls
    /\ disposeCalls'[h] = disposeCalls[h] + 1

\* a dispose() call that changes nothing and sends nothing
DisposeNoOp(h) ==
    /\ sentLog' = sentLog
    /\ UNCHANGED << kernelData, ctrl, handlePool, microtasks, pendingAdd,
                    inflight, cells, lastUpdate >>

\* the dispose() call that removes handle h and sends $removeKernel
DisposeRemoves(h) ==
    /\ h \notin DOMAIN kernelData'
    /\ sentLog'[h] = Append(sentLog[h], "removeKernel")

\* C12 (as stated): the first dispose() call on a controller removes its
\* handle from the registry and sends removeKernel; every later call changes
\* no state and sends nothing.
C12_FirstDisposeRemoves ==
    [][ \A h \in DOMAIN disposeCalls :
          DisposeCall(h) =>
              IF disposeCalls[h] = 0 THEN DisposeRemoves(h) ELSE DisposeNoOp(h) ]_vars

\* C12 (amended): removeKernel is sent at most once for a handle.  The first
\* dispose() call removes the handle from the registry and sends removeKernel
\* unless the $addKernel registration was rejected before it; every other
\* dispose() call (a later one, or any one after the rejection) changes no
\* state and sends nothing.
C12_DisposeAtMostOnce ==
    [][ \A h \in DOMAIN disposeCalls :
          /\ Count(sentLog'[h], "removeKernel") <= 1
          /\ DisposeCall(h) =>
                 IF disposeCalls[h] = 0 /\ ~Rejected(h)
                 THEN DisposeRemoves(h)
                 ELSE DisposeNoOp(h) ]_vars

\* a second dispose() call on a controller whose first call sent removeKernel
C12_Witness ==
    /\ lastOp.op = "dispose"
    /\ disposeCalls[lastOp.h] >= 2
    /\ lastOp.sent = << >>
    /\ Count(sentLog[lastOp.h], "removeKernel") = 1
    /\ lastOp.h \notin DOMAIN kernelData

\* the value of the most recent pair dispatched for notebook n (FALSE if none)
LastDispatched(log, n) ==
    LET idx == { i \in 1 .. Len(log) : log[i][1] = n }
    IN /\ idx # {}
       /\ log[CHOOSE i \in idx : \A j \in idx : j <= i][2]

\* C13: for a registered controller, a notebook is in associatedNotebooks
\* exactly when the most recent $acceptNotebookAssociation dispatched for its
\* handle and that notebook carried true, whatever other operations came in
\* between; each such dispatch fires the selection event once, with the
\* dispatched notebook and value.
C13_AssociationFollowsDispatch ==
    /\ \A h \in DOMAIN kernelData : \A n \in Notebooks :
           n \in ctrl[h].associatedNotebooks <=> LastDispatched(assocLog[h], n)
    /\ ( /\ lastOp.op = "acceptNotebookAssociation"
         /\ lastOp.h \in DOMAIN kernelData )
       => lastOp.events = << [selected |-> lastOp.args[2],
                              notebook |-> lastOp.args[1]] >>

\* true then false was dispatched for one notebook: the set is empty again
\* and the second dispatch fired selected = false
C13_Witness ==
    /\ lastOp.op = "acceptNotebookAssociation"
    /\ lastOp.h \in DOMAIN kernelData
    /\ Len(assocLog[lastOp.h]) >= 2
    /\ LET log == assocLog[lastOp.h]
           n == lastOp.args[1]
       IN /\ log[Len(log) - 1] = << n, TRUE >>
          /\ log[Len(log)] = << n, FALSE >>
          /\ n \notin ctrl[lastOp.h].associatedNotebooks
    /\ lastOp.events = << [selected |-> FALSE, notebook |-> lastOp.args[1]] >>

\* C14: createNotebookCellExecutionTask creates a task through the
\* collaborator exactly when the cell index is >= 0, the controller is not
\* disposed, the notebook of the cell is associated and the cell resolves;
\* otherwise it throws without creating one, with the error of the first
\* failed check in the order removed cell, disposed controller, unassociated
\* notebook, invalid cell.
C14_TaskPreconditions ==
    lastOp.op = "createNotebookCellExecutionTask" =>
        LET cell == lastOp.args[1]
            error == lastOp.args[2]
            c == ctrl[lastOp.h]
            removed == cell.index < 0
            disposed == c.isDisposed
            unassociated == cell.notebook \notin c.associatedNotebooks
            invalid == cell.handle \notin cells
        IN /\ lastOp.result = "ok" <=> ~(removed \/ disposed \/ unassociated \/ invalid)
           /\ lastOp.result = "ok" <=> Len(lastOp.calls) = 1
           /\ lastOp.result = "ok" <=> error = "task"
           /\ lastOp.result = "throw" <=> error # "task"
           /\ removed => error = "REMOVED"
           /\ ~removed /\ disposed => error = "DISPOSED"
           /\ ~removed /\ ~disposed /\ unassociated => error = "NOT associated"
           /\ ~removed /\ ~disposed /\ ~unassociated /\ invalid => error = "invalid cell"

\* the controller is disposed and nothing else is wrong with the call
C14_Witness ==
    /\ lastOp.op = "createNotebookCellExecutionTask"
    /\ lastOp.args[1].index >= 0
    /\ ctrl[lastOp.h].isDisposed
    /\ lastOp.args[1].notebook \in ctrl[lastOp.h].associatedNotebooks
    /\ lastOp.args[1].handle \in cells
    /\ lastOp.args[2] = "DISPOSED"
    /\ lastOp.calls = << >>

\* the inbound calls that name a handle
DispatchOps == {"acceptNotebookAssociation", "executeCells", "cancelCells",
                "acceptKernelMessageFromRenderer"}

\* C15 (as stated): a controller whose disposed flag is set has no record in
\* the registry, and an inbound call for the handle of a controller whose
\* registration was rejected fires no event and calls no handler.
C15_RejectedReceivesNothing ==
    /\ \A h \in DOMAIN ctrl : ctrl[h].isDisposed => h \notin DOMAIN kernelData
    /\ ( lastOp.op \in DispatchOps /\ Rejected(lastOp.h) )
       => ( /\ lastOp.events = << >>
            /\ lastOp.calls = << >>
            /\ lastOp.cancels = << >>
            /\ lastOp.result # "throw" )

\* C16 (as stated): a $cancelCells that resumes after its controller was
\* disposed requests one cancellation for each passed cell handle that
\* resolves at that time.
C16_CancelCompletesAfterDispose ==
    ( /\ lastOp.op = "cancelCellsResume"
      /\ lastOp.h \notin DOMAIN kernelData )
    => lastOp.cancels = SelectSeq(lastOp.args, LAMBDA c : c \in cells)

\* C17: $executeCells for a registered handle calls the execute handler the
\* controller holds at that time exactly once, with the requested cell
\* handles that resolve, in request order (with none if none resolves); the
\* handler held is the default one after executeHandler was set to undefined.
C17_ExecuteHandlerCalledOnce ==
    /\ ( lastOp.op = "executeCells" /\ lastOp.h \in DOMAIN kernelData )
       => /\ Len(lastOp.calls) = 1
          /\ lastOp.calls[1].handler = ctrl[lastOp.h].executeHandler
          /\ lastOp.calls[1].handler # Undef
          /\ lastOp.calls[1].cells = SelectSeq(lastOp.args, LAMBDA c : c \in cells)
          /\ lastOp.result # "rejected"
    /\ lastOp.op = "executeCellsResume" => Len(lastOp.calls) = 1
    /\ ( lastOp.op = "executeHandler" /\ lastOp.args = << Undef >> )
       => ctrl[lastOp.h].executeHandler = "default"

\* cells 2 and 1 were requested after cell 2 had left the document: the
\* handler was called with cell 1 alone
C17_Witness ==
    /\ lastOp.op = "executeCells"
    /\ lastOp.h \in DOMAIN kernelData
    /\ lastOp.args = << 2, 1 >>
    /\ cells = {1}
    /\ Len(lastOp.calls) = 1
    /\ lastOp.calls[1].cells = << 1 >>

\* C18 (as stated): in the calls sent for a handle, addKernel is the first
\* and no updateKernel follows a removeKernel.
C18_NoUpdateAfterRemove ==
    \A h \in DOMAIN sentLog :
        LET log == sentLog[h]
        IN /\ log[1] = "addKernel"
           /\ \A i, j \in 1 .. Len(log) :
                  ( log[i] = "removeKernel" /\ log[j] = "updateKernel" ) => j < i

\* C19: for a controller that is not disposed, once no continuation is
\* queued, the DTO of the last $updateKernel sent equals the DTO the
\* controller holds if any setter was called, and $updateKernel was sent at
\* most as often as setters were called.
C19_NoUpdateLost ==
    \A h \in DOMAIN ctrl :
        ~ctrl[h].isDisposed =>
            /\ Count(sentLog[h], "updateKernel") <= setterCalls[h]
            /\ ( microtasks = << >> /\ setterCalls[h] >= 1 )
               => /\ Count(sentLog[h], "updateKernel") >= 1
                  /\ lastUpdate[h] = ctrl[h].data

\* setters were called in two turns and the second update carried the DTO
C19_Witness ==
    \E h \in DOMAIN ctrl :
        /\ ~ctrl[h].isDisposed
        /\ microtasks = << >>
        /\ setterCalls[h] >= 2
        /\ Count(sentLog[h], "updateKernel") = 2
        /\ lastUpdate[h] = ctrl[h].data
        /\ lastUpdate[h].label = "L1"

\* C20: a createNotebookController call that throws on a duplicate
\* (extension, id) pair leaves the handle pool, the registry, the
\* controllers, the calls sent to the main side and the queued work as they
\* were.
C20_DuplicateCreateChangesNothing ==
    [][ ( lastOp'.op = "create" /\ lastOp'.result = "throw" )
        => ( /\ handlePool' = handlePool
             /\ kernelData' = kernelData
             /\ ctrl' = ctrl
             /\ sentLog' = sentLog
             /\ pendingAdd' = pendingAdd
             /\ microtasks' = microtasks
             /\ inflight' = inflight
             /\ lastOp'.sent = << >> ) ]_vars

\* a create call threw on a duplicate pair while one controller exists
C20_Witness ==
    /\ lastOp.op = "create"
    /\ lastOp.result = "throw"
    /\ handlePool = 1
    /\ DOMAIN kernelData = {0}
    /\ sentLog[0] = << "addKernel" >>

====
